---- MODULE Spec2Model ----
(***************************************************************************)
(* Tempo: the temporal video-effects pipeline of the web editor.           *)
(*                                                                         *)
(* The model follows the VideoCanvas component (its refs, its four React   *)
(* effects, the render loop closure and the requestAnimationFrame queue),  *)
(* the editor page that renders it and the useCollaboration hook that      *)
(* feeds it the shared effect settings.                                    *)
(*                                                                         *)
(* Decay and intensity are counted in tenths (9 stands for 0.9).           *)
(* Time is counted in clock units that are long against one React render:  *)
(* the clock does not advance while a render or an effect flush is         *)
(* pending.                                                                *)
(***************************************************************************)
EXTENDS Integers, Sequences, FiniteSets, TLC

\* ------------------------------------------------------------------------
\* Bounds of the model
\* ------------------------------------------------------------------------
MaxFiles == 2
MaxDim == 1
MaxNow == 1
MaxInbox == 2
MaxTicks == 16
MaxWidth == 2
MaxPixelTicks == 2
MaxClock == 4
GlitchWidth == 3

\* ------------------------------------------------------------------------
\* Program constants
\* ------------------------------------------------------------------------
DefaultDecay == 9
DefaultIntensity == 5
BaseEchoes == 5

NoEffect == "none"

EFFECTS ==
    {"time-smear", "echo-cascade", "liquid-time", "temporal-glitch",
     "breath-sync", "memory-fade"}

\* slider values used by the model, in tenths
DecayValues == {5, 9}
IntensityValues == {0, 5}

NoFile == 0
Files == 1..MaxFiles

VARIABLES
    \* useCollaboration
    effectMap,        \* the Y.Map 'currentEffect' of the local replica
    effectSettings,   \* React state mirrored from effectMap by the observer
    inbox,            \* single-key updates of collaborators, in flight
    \* editor page (Home)
    videoFile,
    isPlaying,
    homeDirty,        \* Home has state updates that are not rendered yet
    \* VideoCanvas: props, state and React bookkeeping
    props,            \* props of the last render of VideoCanvas
    deps,             \* dependency values of the last render
    changed,          \* effects whose dependencies changed in the last render
    phase,            \* "idle", "committed" (flush pending), "flushing"
    mounted,
    videoLoaded,
    videoUrl,
    canvasDirty,      \* VideoCanvas has state updates that are not rendered yet
    loopCleanup,      \* the last run of the render loop effect returned a cleanup
    \* VideoCanvas: refs
    animationRef,
    ctxRef,
    previousFrameRef,
    frameHistoryRef,
    timeRef,
    startTimeRef,
    \* DOM: the video and canvas elements
    videoSrc,
    metadataPending,  \* a loadedmetadata event is due
    paused,
    timeMoved,        \* video.currentTime differs from Home's currentTime
    canvasWidth,
    canvasHeight,
    \* host
    rafQueue,         \* callbacks requested with requestAnimationFrame
    now,              \* Date.now()
    \* observation of the run (history variables)
    loopState,        \* "Uninitialized", "Running", "Terminated"
    effectFresh,      \* no tick has run since the effect selector changed
    lastTick,         \* what the last executed tick did
    \* the effect functions, tick by tick
    tickParams,       \* effect, decay and intensity of the last tick
    tickCount,        \* ticks since the effect state was reset
    currentFrame,     \* pixel data the last tick read from the canvas
    canvasData,       \* pixel data of the canvas after the last tick
    prevData,         \* pixel data of previousFrameRef.current
    triggered,        \* the last tick drew a glitch
    \* the API client and the auth handler
    localStorage,     \* tempo_access_token, tempo_refresh_token
    serverNow,        \* time.Now() of the API server, in access token lifetimes
    lastAuth,         \* the last call of the API client and how it ended
    \* echo-cascade on pixel data
    historyData,      \* pixel data of the frames in frameHistoryRef.current
    \* the shared document, one replica per client
    docs,             \* the map 'currentEffect' of each client's Y.Doc
    intent,           \* the values the users chose, by key (history variable)
    \* ExportModal
    exportModal       \* state, refs, recorders and timers of the modal

homeVars == <<effectMap, effectSettings, inbox, videoFile, isPlaying, homeDirty>>
reactVars == <<props, deps, changed, phase, mounted, videoLoaded, videoUrl,
               canvasDirty, loopCleanup>>
refVars == <<animationRef, ctxRef, previousFrameRef, frameHistoryRef, timeRef,
             startTimeRef>>
domVars == <<videoSrc, metadataPending, paused,
             timeMoved, canvasWidth, canvasHeight>>
hostVars == <<rafQueue, now>>
obsVars == <<loopState, effectFresh, lastTick>>
pageVars == <<homeVars, reactVars, refVars, domVars, hostVars, obsVars>>
tickVars == <<tickParams, tickCount>>

\* what the page does not touch
pixelVars == <<currentFrame, canvasData, prevData, triggered>>
authVars == <<localStorage, serverNow, lastAuth>>
echoVars == <<historyData>>
sharedVars == <<docs, intent>>
exportVars == <<exportModal>>
benchVars == <<tickVars, pixelVars, authVars, echoVars, sharedVars, exportVars>>

vars == <<pageVars, benchVars>>

\* ------------------------------------------------------------------------
\* Values
\* ------------------------------------------------------------------------

\* An ImageData retained by the component.  old: it was retained under an
\* earlier effect selection.
NoFrame == [present |-> FALSE, old |-> FALSE]
NewFrame == [present |-> TRUE, old |-> FALSE]

NoTick ==
    [cause |-> "none", first |-> FALSE, hadHistory |-> FALSE, torn |-> FALSE,
     readOld |-> FALSE, orphan |-> FALSE,
     threw |-> FALSE]

\* ------------------------------------------------------------------------
\* Init: the state after Home and VideoCanvas have mounted without a video
\* ------------------------------------------------------------------------
InitPage ==
    /\ effectMap = [selectedEffect |-> NoEffect, decay |-> DefaultDecay,
                    intensity |-> DefaultIntensity, torn |-> FALSE]
    /\ effectSettings = effectMap
    /\ inbox = <<>>
    /\ videoFile = NoFile
    /\ isPlaying = FALSE
    /\ homeDirty = FALSE
    /\ props = [videoFile |-> NoFile, effect |-> NoEffect,
                decay |-> DefaultDecay, intensity |-> DefaultIntensity,
                torn |-> FALSE, isPlaying |-> FALSE]
    /\ deps = [videoFile |-> NoFile, effect |-> NoEffect,
               videoLoaded |-> FALSE, isPlaying |-> FALSE]
    /\ changed = {}
    /\ phase = "idle"
    /\ mounted = TRUE
    /\ videoLoaded = FALSE
    /\ videoUrl = NoFile
    /\ canvasDirty = FALSE
    /\ loopCleanup = FALSE
    /\ animationRef = 0
    /\ ctxRef = FALSE
    /\ previousFrameRef = NoFrame
    /\ frameHistoryRef = <<>>
    /\ timeRef = 0
    /\ startTimeRef = 0
    /\ videoSrc = NoFile
    /\ metadataPending = FALSE
    /\ paused = TRUE
    /\ timeMoved = FALSE
    /\ canvasWidth = 0
    /\ canvasHeight = 0
    /\ rafQueue = {}
    /\ now = 0
    /\ loopState = "Uninitialized"
    /\ effectFresh = TRUE
    /\ lastTick = NoTick

InitTicks ==
    /\ tickParams = [effect |-> NoEffect, decay |-> DefaultDecay,
                     intensity |-> DefaultIntensity]
    /\ tickCount = 0

InitPixels ==
    /\ currentFrame = [w |-> 0, px |-> <<>>]
    /\ canvasData = [w |-> 0, px |-> <<>>]
    /\ prevData = [w |-> 0, px |-> <<>>]
    /\ triggered = FALSE

\* localStorage.getItem() of a key that was never set
Null == [kind |-> "null", exp |-> 0]

InitAuth ==
    /\ localStorage = [access |-> Null, refresh |-> Null]
    /\ serverNow = 0
    /\ lastAuth = [op |-> "none", status |-> 0, at |-> 0]

InitHistory == historyData = <<>>

\* the clients of one project, by the clientID of their Y.Doc
Clients == {1, 2}
Keys == {"selectedEffect", "decay", "intensity"}

\* a client that has not opened the project
Absent == [joined |-> FALSE, map |-> [k \in Keys |-> <<>>]]

InitDocs ==
    /\ docs = [c \in Clients |-> Absent]
    /\ intent = [k \in Keys |-> {}]

\* useState and useRef of ExportModal, the modal closed
\*   isOpen            showExportModal of the editor page
\*   recorders         the MediaRecorders created so far, the last one is
\*                     mediaRecorderRef.current
\*   progressInterval  progressIntervalRef.current holds a running interval
\*   processingTimers  pending 500 ms timers set by onstop
\*   sinceCancel       cancelled or closed since the last export started
\*                     (history)
InitExport ==
    exportModal = [isOpen |-> FALSE,
                   status |-> "idle",
                   progress |-> 0,
                   downloadUrl |-> Null,
                   error |-> Null,
                   cancelledRef |-> FALSE,
                   recorders |-> <<>>,
                   progressInterval |-> FALSE,
                   processingTimers |-> 0,
                   sinceCancel |-> FALSE]

Init ==
    /\ InitPage
    /\ InitTicks
    /\ InitPixels
    /\ InitAuth
    /\ InitHistory
    /\ InitExport
    /\ InitDocs


\* ------------------------------------------------------------------------
\* Helpers
\* ------------------------------------------------------------------------
Min(a, b) == IF a < b THEN a ELSE b

SetIf(cond, x) == IF cond THEN {x} ELSE {}

\* Array.length = n on a longer array keeps the first n entries
Truncate(s, n) == IF Len(s) > n THEN SubSeq(s, 1, n) ELSE s

MarkOld(f) == IF f.present THEN [f EXCEPT !.old = TRUE] ELSE f

MarkAllOld(s) == [i \in 1..Len(s) |-> MarkOld(s[i])]

\* the values a render of Home hands to VideoCanvas
homeProps ==
    [videoFile |-> videoFile, effect |-> effectSettings.selectedEffect,
     decay |-> effectSettings.decay, intensity |-> effectSettings.intensity,
     torn |-> effectSettings.torn, isPlaying |-> isPlaying]

\* the refs and host state a handler works on, threaded through its steps
Refs ==
    [prev |-> previousFrameRef, hist |-> frameHistoryRef, time |-> timeRef,
     start |-> startTimeRef, raf |-> rafQueue, anim |-> animationRef,
     home |-> homeDirty, moved |-> timeMoved, log |-> lastTick,
     fresh |-> effectFresh, state |-> loopState, threw |-> FALSE]

\* the closure of one run of the render loop effect
Closure(p) ==
    [effect |-> p.effect, decay |-> p.decay, intensity |-> p.intensity,
     torn |-> p.torn, stopped |-> FALSE]

\* ------------------------------------------------------------------------
\* Host: requestAnimationFrame / cancelAnimationFrame
\* ------------------------------------------------------------------------

\* a handle that is neither pending nor the one held in animationRef
FreshId(raf, anim) ==
    CHOOSE i \in 1..(Cardinality(raf) + 2) :
        /\ i # anim
        /\ \A e \in raf : e.id # i
        /\ \A j \in 1..(i - 1) : j = anim \/ \E e \in raf : e.id = j

\* a request that registers the callback twice
requestAnimationFrameTwice(raf, id, c) ==
    raf \cup {[id |-> i, effect |-> c.effect, decay |-> c.decay,
               intensity |-> c.intensity, torn |-> c.torn,
               stopped |-> c.stopped] : i \in {id, id + 1}}

requestAnimationFrame(raf, id, c) ==
    raf \cup {[id |-> id, effect |-> c.effect, decay |-> c.decay,
               intensity |-> c.intensity, torn |-> c.torn,
               stopped |-> c.stopped]}

\* a cancel that leaves the request in the queue
cancelNothing(raf, id) == raf

\* cancelling an unknown or already run handle is a no-op
cancelAnimationFrame(raf, id) == {e \in raf : e.id # id}

\* ------------------------------------------------------------------------
\* The six effects (history and clock side of each)
\* ------------------------------------------------------------------------
maxEchoes(intensity) == BaseEchoes + intensity

\* previousFrameRef = ctx.getImageData(...) after blending with the previous
applyTimeSmear(R) == [R EXCEPT !.prev = NewFrame]

\* an echo cascade that cuts the history before it stores the new frame
applyEchoCascadeCutsFirst(R, intensity) ==
    [R EXCEPT !.hist = <<NewFrame>> \o Truncate(R.hist, maxEchoes(intensity))]

applyEchoCascade(R, intensity) ==
    [R EXCEPT !.hist = Truncate(<<NewFrame>> \o R.hist, maxEchoes(intensity))]

applyTemporalGlitch(R) == [R EXCEPT !.prev = NewFrame]

applyBreathSync(R) == R

applyMemoryFade(R) == [R EXCEPT !.prev = NewFrame]

applyLiquidTime(R) == [R EXCEPT !.prev = NewFrame]

applyEffect(R, c) ==
    CASE c.effect = "time-smear" -> applyTimeSmear(R)
      [] c.effect = "echo-cascade" -> applyEchoCascade(R, c.intensity)
      [] c.effect = "temporal-glitch" -> applyTemporalGlitch(R)
      [] c.effect = "breath-sync" -> applyBreathSync(R)
      [] c.effect = "memory-fade" -> applyMemoryFade(R)
      [] c.effect = "liquid-time" -> applyLiquidTime(R)
      [] OTHER -> [R EXCEPT !.prev = NewFrame]

\* the retained frames a tick of effect reads
TickReads(effect, prev, hist, intensity) ==
    CASE effect \in {"time-smear", "memory-fade"} -> SetIf(prev.present, prev)
      [] effect = "echo-cascade" ->
            LET h == Truncate(<<NewFrame>> \o hist, maxEchoes(intensity))
            IN  IF Len(h) < 2 THEN {} ELSE {h[i] : i \in 2..Len(h)}
      [] OTHER -> {}

\* a loop that requests its next frame only while the video plays
scheduleNextIfPlaying(R, c) ==
    LET id == FreshId(R.raf, R.anim)
    IN  IF paused
        THEN [R EXCEPT !.home = R.home \/ R.moved, !.moved = FALSE]
        ELSE [R EXCEPT !.home = R.home \/ R.moved,
                       !.moved = FALSE,
                       !.raf = requestAnimationFrame(R.raf, id, c),
                       !.anim = id]

\* onTimeUpdate(video.currentTime, video.duration), then
\* animationRef.current = requestAnimationFrame(render)
scheduleNext(R, c) ==
    LET id == FreshId(R.raf, R.anim)
    IN  [R EXCEPT !.home = R.home \/ R.moved,
                  !.moved = FALSE,
                  !.raf = requestAnimationFrame(R.raf, id, c),
                  !.anim = id]

\* one tick: the body of render() for the closure c
render(R, c, cause) ==
    LET reads == TickReads(c.effect, R.prev, R.hist, c.intensity)
        throws == canvasWidth = 0 \/ canvasHeight = 0
        log == [cause |-> cause,
                first |-> R.fresh,
                hadHistory |-> R.prev.present \/ R.hist # <<>>,
                torn |-> c.torn /\ c.effect # NoEffect,
                readOld |-> ~throws /\ \E f \in reads : f.old,
                orphan |-> c.stopped,
                threw |-> throws]
        R1 == [R EXCEPT !.time = now - R.start, !.log = log, !.fresh = FALSE]
    IN  IF throws
        THEN \* ctx.getImageData on an empty canvas raises IndexSizeError
             [R1 EXCEPT !.threw = TRUE]
        ELSE scheduleNext(applyEffect(R1, c), c)


\* ------------------------------------------------------------------------
\* React: render and commit of Home and VideoCanvas
\* ------------------------------------------------------------------------
Interactive == mounted /\ phase = "idle"

\* React renders the updates of a click or an input event before the next
\* event is dispatched
Settled == Interactive /\ ~homeDirty /\ ~canvasDirty

\* the effects whose dependency array differs from the one of the last
\* render: [videoFile], [effect], [videoLoaded, effect, effectParams,
\* onTimeUpdate] and [isPlaying, videoLoaded]
changedEffects(d, old, homeRendered) ==
    SetIf(d.videoFile # old.videoFile, "file")
    \cup SetIf(d.effect # old.effect, "reset")
    \cup SetIf(d.videoLoaded # old.videoLoaded \/ d.effect # old.effect
               \/ homeRendered, "loop")
    \cup SetIf(d.isPlaying # old.isPlaying
               \/ d.videoLoaded # old.videoLoaded, "play")

\* VideoCanvas renders with props p and its current state; homeRendered says
\* that Home rendered too, which hands over a new effectParams object.
\* React compares the dependency arrays and commits the DOM; the passive
\* effects are flushed later.
Commit(p, homeRendered) ==
    /\ LET d == [videoFile |-> p.videoFile, effect |-> p.effect,
                 videoLoaded |-> videoLoaded, isPlaying |-> p.isPlaying]
           c == changedEffects(d, deps, homeRendered)
       IN  /\ props' = p
           /\ deps' = d
           /\ changed' = c
           /\ phase' = IF c = {} THEN "idle" ELSE "committed"
    /\ homeDirty' = FALSE
    /\ canvasDirty' = FALSE
    \* <video src={videoUrl}>: a new source starts loading and is paused
    /\ IF videoUrl # videoSrc
       THEN /\ videoSrc' = videoUrl
            /\ metadataPending' = (videoUrl # NoFile)
            /\ paused' = TRUE
            /\ timeMoved' = FALSE
       ELSE UNCHANGED <<videoSrc, metadataPending, paused, timeMoved>>
    /\ UNCHANGED <<mounted, videoLoaded, videoUrl, loopCleanup, refVars,
                   canvasWidth, canvasHeight, hostVars, obsVars, benchVars>>

\* the render React schedules for updates made outside a click or input
\* event (a remote update, onTimeUpdate in a tick, the loadedmetadata event,
\* a state update made by an effect)
RenderCommit ==
    /\ Interactive
    /\ homeDirty \/ canvasDirty
    /\ Commit(IF homeDirty THEN homeProps ELSE props, homeDirty)
    /\ UNCHANGED <<effectMap, effectSettings, inbox, videoFile, isPlaying>>

\* ------------------------------------------------------------------------
\* useCollaboration: the shared effect settings
\* ------------------------------------------------------------------------

\* what map.set(key, value) makes of the map
mapSet(map, key, value) ==
    CASE key = "selectedEffect" -> [map EXCEPT !.selectedEffect = value]
      [] key = "decay" -> [map EXCEPT !.decay = value]
      [] key = "intensity" -> [map EXCEPT !.intensity = value]

\* setSelectedEffect: one map.set
setSelectedEffect(map, e) == mapSet(map, "selectedEffect", e)

\* setEffectParams: map.set('decay'), then map.set('intensity'); both values
\* then come from this one call
setEffectParams(map, params) ==
    [mapSet(mapSet(map, "decay", params.decay), "intensity", params.intensity)
        EXCEPT !.torn = FALSE]

\* the observer updateEffectSettings copies the map into React state
updateEffectSettings(map) ==
    [selectedEffect |-> map.selectedEffect, decay |-> map.decay,
     intensity |-> map.intensity, torn |-> map.torn]

\* a local edit of the shared map, then the render of the input event
LocalEdit(map) ==
    /\ Settled
    /\ effectMap' = map
    /\ effectSettings' = updateEffectSettings(map)
    /\ Commit([props EXCEPT !.effect = map.selectedEffect,
                            !.decay = map.decay,
                            !.intensity = map.intensity,
                            !.torn = map.torn], TRUE)
    /\ UNCHANGED <<inbox, videoFile, isPlaying>>

\* EffectPanel: clicking the selected effect deselects it
handleEffectClick(e) ==
    LocalEdit(setSelectedEffect(effectMap,
                                IF props.effect = e THEN NoEffect ELSE e))

\* PropertiesPanel: the sliders are rendered only while an effect is selected
handleDecayChange(v) ==
    /\ props.effect # NoEffect
    /\ LocalEdit(setEffectParams(effectMap,
                     [decay |-> v, intensity |-> props.intensity]))

handleIntensityChange(v) ==
    /\ props.effect # NoEffect
    /\ LocalEdit(setEffectParams(effectMap,
                     [decay |-> props.decay, intensity |-> v]))

\* a collaborator calls setEffectParams: its two map.set calls are two
\* transactions, hence two updates on the wire
CollaboratorSetsParams(d, i) ==
    /\ mounted
    /\ Len(inbox) + 2 <= MaxInbox
    /\ inbox' = inbox \o
           <<[key |-> "decay", value |-> d, peer |-> i],
             [key |-> "intensity", value |-> i, peer |-> d]>>
    /\ UNCHANGED <<effectMap, effectSettings, videoFile, isPlaying, homeDirty,
                   reactVars, refVars, domVars, hostVars, obsVars, benchVars>>

\* the provider applies one remote update; effectMap.observe fires and the
\* new settings wait for the next render
ReceiveUpdate ==
    /\ Interactive
    /\ inbox # <<>>
    /\ LET m == Head(inbox)
           other == IF m.key = "decay" THEN effectMap.intensity
                    ELSE effectMap.decay
           map == [mapSet(effectMap, m.key, m.value)
                      EXCEPT !.torn = (other # m.peer)]
       IN  /\ effectMap' = map
           /\ effectSettings' = updateEffectSettings(map)
    /\ homeDirty' = TRUE
    /\ inbox' = Tail(inbox)
    /\ UNCHANGED <<videoFile, isPlaying, reactVars, refVars, domVars,
                   hostVars, obsVars, benchVars>>

\* ------------------------------------------------------------------------
\* Home: the editor page
\* ------------------------------------------------------------------------
handleFileSelect(f) ==
    /\ Settled
    /\ f # videoFile \/ isPlaying
    /\ videoFile' = f
    /\ isPlaying' = FALSE
    /\ Commit([props EXCEPT !.videoFile = f, !.isPlaying = FALSE], TRUE)
    /\ UNCHANGED <<effectMap, effectSettings, inbox>>

\* the play button is disabled until a video file is chosen
handlePlayPause ==
    /\ Settled
    /\ props.videoFile # NoFile
    /\ isPlaying' = ~isPlaying
    /\ Commit([props EXCEPT !.isPlaying = ~isPlaying], TRUE)
    /\ UNCHANGED <<effectMap, effectSettings, inbox, videoFile>>

\* the skip buttons set Home's currentTime: Home renders again
handleTimeChange ==
    /\ Settled
    /\ props.videoFile # NoFile
    /\ Commit(props, TRUE)
    /\ UNCHANGED <<effectMap, effectSettings, inbox, videoFile, isPlaying>>

\* ------------------------------------------------------------------------
\* VideoCanvas
\* ------------------------------------------------------------------------
AssignRefs(R) ==
    /\ previousFrameRef' = R.prev
    /\ frameHistoryRef' = R.hist
    /\ timeRef' = R.time
    /\ startTimeRef' = R.start
    /\ rafQueue' = R.raf
    /\ animationRef' = R.anim
    /\ homeDirty' = R.home
    /\ timeMoved' = R.moved
    /\ lastTick' = R.log
    /\ effectFresh' = R.fresh

\* the page is gone: Home, VideoCanvas, their state, refs and elements are
\* discarded and the shared document is destroyed; the host keeps its queue
Discard(raf) ==
    /\ mounted' = FALSE
    /\ effectMap' = [selectedEffect |-> NoEffect, decay |-> DefaultDecay,
                     intensity |-> DefaultIntensity, torn |-> FALSE]
    /\ effectSettings' = effectMap'
    /\ inbox' = <<>>
    /\ videoFile' = NoFile
    /\ isPlaying' = FALSE
    /\ homeDirty' = FALSE
    /\ props' = [videoFile |-> NoFile, effect |-> NoEffect,
                 decay |-> DefaultDecay, intensity |-> DefaultIntensity,
                 torn |-> FALSE, isPlaying |-> FALSE]
    /\ deps' = [videoFile |-> NoFile, effect |-> NoEffect,
                videoLoaded |-> FALSE, isPlaying |-> FALSE]
    /\ changed' = {}
    /\ phase' = "idle"
    /\ videoLoaded' = FALSE
    /\ videoUrl' = NoFile
    /\ canvasDirty' = FALSE
    /\ loopCleanup' = FALSE
    /\ animationRef' = 0
    /\ ctxRef' = FALSE
    /\ previousFrameRef' = NoFrame
    /\ frameHistoryRef' = <<>>
    /\ timeRef' = 0
    /\ startTimeRef' = 0
    /\ videoSrc' = NoFile
    /\ metadataPending' = FALSE
    /\ paused' = TRUE
    /\ timeMoved' = FALSE
    /\ canvasWidth' = 0
    /\ canvasHeight' = 0
    /\ effectFresh' = FALSE
    /\ rafQueue' = raf
    /\ now' = now
    /\ UNCHANGED benchVars

\* a cleanup that releases the retained frames as well
loopTeardownReleasesFrames(R) ==
    [R EXCEPT !.raf = cancelAnimationFrame(
                          {[e EXCEPT !.stopped = TRUE] : e \in R.raf}, R.anim),
              !.state = "Terminated",
              !.prev = NoFrame,
              !.hist = <<>>]

\* the cleanup returned by the render loop effect: stop()
loopTeardown(R) ==
    [R EXCEPT !.raf = cancelAnimationFrame(
                          {[e EXCEPT !.stopped = TRUE] : e \in R.raf}, R.anim),
              !.state = "Terminated"]

\* first half of the flush: the cleanups of the effects that run again
FlushCleanups ==
    /\ phase = "committed"
    /\ LET R0 == Refs
           R1 == IF "reset" \in changed
                 THEN [R0 EXCEPT !.prev = MarkOld(R0.prev),
                                 !.hist = MarkAllOld(R0.hist),
                                 !.fresh = TRUE]
                 ELSE R0
           R2 == IF "loop" \in changed /\ loopCleanup
                 THEN loopTeardown(R1) ELSE R1
       IN  /\ AssignRefs(R2)
           /\ loopState' = R2.state
    /\ loopCleanup' = (loopCleanup /\ "loop" \notin changed)
    /\ phase' = "flushing"
    /\ UNCHANGED <<effectMap, effectSettings, inbox, videoFile, isPlaying,
                   props, deps, changed, mounted, videoLoaded, videoUrl,
                   canvasDirty, ctxRef, videoSrc, metadataPending, paused,
                   canvasWidth, canvasHeight, now, benchVars>>

\* a reset that restarts the clock but keeps the retained frames
resetEffectStateKeepsFrames(R) == [R EXCEPT !.start = now]

\* the effect on [effect]: reset the effect state
resetEffectState(R) ==
    [R EXCEPT !.prev = NoFrame, !.hist = <<>>, !.start = now]

\* the effect on [isPlaying, videoLoaded]
playPause(isPaused, loaded, playing) ==
    IF ~loaded THEN isPaused ELSE ~playing

\* second half of the flush: the effects whose dependencies changed, in the
\* order of their declaration
FlushEffects ==
    /\ phase = "flushing"
    /\ LET runFile == "file" \in changed
           loaded1 == IF runFile /\ props.videoFile = NoFile
                      THEN FALSE ELSE videoLoaded
           url1 == IF runFile THEN props.videoFile ELSE videoUrl
           R1 == IF "reset" \in changed THEN resetEffectState(Refs) ELSE Refs
           starts == "loop" \in changed /\ ctxRef /\ deps.videoLoaded
           R2 == IF starts
                 THEN render([R1 EXCEPT !.state = "Running"], Closure(props),
                             "start")
                 ELSE R1
       IN  IF R2.threw
           THEN \* an exception in an effect unmounts the whole tree
                /\ Discard(R2.raf)
                /\ loopState' = "Terminated"
                /\ lastTick' = R2.log
           ELSE /\ AssignRefs(R2)
                /\ loopState' = R2.state
                /\ videoUrl' = url1
                /\ videoLoaded' = loaded1
                /\ canvasDirty' = (canvasDirty \/ url1 # videoUrl
                                               \/ loaded1 # videoLoaded)
                /\ loopCleanup' = (loopCleanup \/ starts)
                /\ paused' = IF "play" \in changed
                             THEN playPause(paused, deps.videoLoaded,
                                            props.isPlaying)
                             ELSE paused
                /\ phase' = "idle"
                /\ changed' = {}
                /\ UNCHANGED <<effectMap, effectSettings, inbox, videoFile,
                               isPlaying, props, deps, mounted, ctxRef,
                               videoSrc, metadataPending, canvasWidth,
                               canvasHeight, now, benchVars>>

\* onLoadedMetadata of the video element
handleVideoLoaded(w, h) ==
    /\ Interactive
    /\ metadataPending
    /\ metadataPending' = FALSE
    /\ canvasWidth' = w
    /\ canvasHeight' = h
    /\ ctxRef' = TRUE
    /\ homeDirty' = TRUE        \* onTimeUpdate(0, video.duration)
    /\ timeMoved' = FALSE
    /\ startTimeRef' = now
    /\ videoLoaded' = TRUE
    /\ canvasDirty' = (canvasDirty \/ ~videoLoaded)
    /\ UNCHANGED <<effectMap, effectSettings, inbox, videoFile, isPlaying,
                   props, deps, changed, phase, mounted, videoUrl,
                   loopCleanup, animationRef, previousFrameRef,
                   frameHistoryRef, timeRef, videoSrc, paused, hostVars,
                   obsVars, benchVars>>

\* the display-refresh signal: the host runs a requested callback
RefreshSignal ==
    /\ phase \in {"idle", "committed"}
    /\ \E e \in rafQueue :
         LET R == render([Refs EXCEPT !.raf = rafQueue \ {e}], e, "signal")
         IN  /\ AssignRefs(R)
             /\ loopState' = IF R.threw /\ ~e.stopped
                             THEN "Terminated" ELSE loopState
    /\ UNCHANGED <<effectMap, effectSettings, inbox, videoFile, isPlaying,
                   reactVars, ctxRef, videoSrc, metadataPending, paused,
                   canvasWidth, canvasHeight, now, benchVars>>

\* the video plays: its currentTime moves on
PlaybackAdvance ==
    /\ Interactive
    /\ ~paused
    /\ ~metadataPending /\ canvasWidth > 0
    /\ ~timeMoved
    /\ timeMoved' = TRUE
    /\ UNCHANGED <<homeVars, reactVars, refVars, videoSrc, metadataPending,
                   paused, canvasWidth, canvasHeight, hostVars, obsVars,
                   benchVars>>

ClockAdvance ==
    /\ Settled
    /\ now < MaxNow
    /\ now' = now + 1
    /\ UNCHANGED <<homeVars, reactVars, refVars, domVars, rafQueue, obsVars,
                   benchVars>>

\* an unmount whose render loop effect returned no cleanup
UnmountWithoutCleanup ==
    /\ Interactive
    /\ Discard(rafQueue)
    /\ loopState' = loopState
    /\ lastTick' = lastTick

\* the page is left: every cleanup runs, then the instance is dropped
Unmount ==
    /\ Interactive
    /\ LET R == IF loopCleanup THEN loopTeardown(Refs) ELSE Refs
       IN  /\ Discard(R.raf)
           /\ loopState' = R.state
    /\ lastTick' = lastTick

\* ------------------------------------------------------------------------
\* Specifications
\* ------------------------------------------------------------------------

\* what the local user, the video element and the host do
NextLocal ==
    \/ \E e \in EFFECTS : handleEffectClick(e)
    \/ \E v \in DecayValues : handleDecayChange(v)
    \/ \E v \in IntensityValues : handleIntensityChange(v)
    \/ \E f \in Files : handleFileSelect(f)
    \/ handlePlayPause
    \/ handleTimeChange
    \/ RenderCommit
    \/ FlushCleanups
    \/ FlushEffects
    \/ \E w \in 0..MaxDim : handleVideoLoaded(w, w)
    \/ RefreshSignal
    \/ PlaybackAdvance
    \/ ClockAdvance
    \/ Unmount

Next == NextLocal

Spec == Init /\ [][Next]_vars

\* the same with a collaborator who edits the effect parameters
NextCollab ==
    \/ \E e \in EFFECTS : handleEffectClick(e)
    \/ \E v \in DecayValues : handleDecayChange(v)
    \/ \E v \in IntensityValues : handleIntensityChange(v)
    \/ \E f \in Files : handleFileSelect(f)
    \/ RenderCommit
    \/ FlushCleanups
    \/ FlushEffects
    \/ \E w \in 1..MaxDim : handleVideoLoaded(w, w)
    \/ RefreshSignal
    \/ \E d \in DecayValues, i \in IntensityValues : CollaboratorSetsParams(d, i)
    \/ ReceiveUpdate

SpecCollab == Init /\ [][NextCollab]_vars

\* ------------------------------------------------------------------------
\* The effect functions on pixel data
\*
\* A frame is one row of pixels, a pixel is <<r, g, b>> (alpha stays 255).
\* Decay and intensity are tenths, so the blends are computed as exact
\* fractions num / den.
\* ------------------------------------------------------------------------
Max(a, b) == IF a > b THEN a ELSE b

\* previousFrameRef.current = null
NoData == [w |-> 0, px |-> <<>>]

\* a store that keeps the fraction, cut off below the point
ToUint8Unclamped(num, den) == num \div den

\* storing num / den into a Uint8ClampedArray: clamped to [0, 255] and
\* rounded to the nearest integer, a tie to the even one
ToUint8Clamped(num, den) ==
    IF num <= 0 THEN 0
    ELSE IF num >= 255 * den THEN 255
    ELSE LET q == num \div den
             r == num % den
         IN  IF 2 * r < den THEN q
             ELSE IF 2 * r > den THEN q + 1
             ELSE IF q % 2 = 0 THEN q ELSE q + 1

\* a smear that leaves the whole decayed trail, whatever the intensity
smearChannelFullTrail(r, pr, decay, intensity) ==
    ToUint8Clamped(Max(10 * r, pr * decay), 10)

\* Math.min(255, r + (Math.max(r, pr * decay) - r) * intensity), stored
smearChannel(r, pr, decay, intensity) ==
    ToUint8Clamped(
        Min(100 * r + (Max(10 * r, pr * decay) - 10 * r) * intensity, 25500),
        100)

\* the loop of applyTimeSmear over the data of the current frame; an index
\* beyond the data of the previous frame reads undefined, the blend is NaN
\* and NaN is stored as 0
smearData(cur, prev, decay, intensity) ==
    IF prev = NoData THEN cur
    ELSE [w |-> cur.w,
          px |-> [k \in 1..cur.w |->
                    IF k <= prev.w
                    THEN [c \in 1..3 |->
                            smearChannel(cur.px[k][c], prev.px[k][c],
                                         decay, intensity)]
                    ELSE <<0, 0, 0>>]]

\* r * (1 - blendAmount) + faded * blendAmount with
\* blendAmount = 0.3 + decay * 0.6, desatAmount = 0.5 + intensity * 0.5 and
\* faded = pr + (gray - pr) * desatAmount, sum being pr + pg + pb
fadeChannel(r, pr, sum, decay, intensity) ==
    LET blend == 30 + 6 * decay
        faded == 60 * pr + (sum - 3 * pr) * (10 + intensity)
    IN  ToUint8Clamped(60 * r * (100 - blend) + faded * blend, 6000)

\* the loop of applyMemoryFade
fadeData(cur, prev, decay, intensity) ==
    [w |-> cur.w,
     px |-> [k \in 1..cur.w |->
               IF k <= prev.w
               THEN LET p == prev.px[k]
                    IN  [c \in 1..3 |->
                           fadeChannel(cur.px[k][c], p[c],
                                       p[1] + p[2] + p[3], decay, intensity)]
               ELSE <<0, 0, 0>>]]

\* the blurred overlay and the vignette are drawn by the canvas: the frame
\* stays as it is or gets darker
dreamOverlay(data, dark) ==
    IF dark
    THEN [data EXCEPT !.px = [k \in 1..data.w |->
                                [c \in 1..3 |-> (3 * data.px[k][c]) \div 4]]]
    ELSE data

\* a || b on channel values
Or(a, b) == IF a # 0 THEN a ELSE b

\* Math.floor(intensity * 15)
splitAmount(intensity) == (15 * intensity) \div 10

\* a trigger that fires on a draw equal to the chance
glitchTriggeredOnEqual(u, intensity) == 10 * u <= 3 * intensity

\* Math.random() < intensity * 0.3, the draw u in tenths
glitchTriggered(u, intensity) == 10 * u < 3 * intensity

\* the blue channel of pixel k after the loop reached it: it is taken from
\* the pixel split places before, which the loop has already rewritten
RECURSIVE splitBlue(_, _, _)
splitBlue(px, split, k) ==
    IF split > 0 /\ k - split >= 1
    THEN Or(splitBlue(px, split, k - split), px[k][3])
    ELSE px[k][3]

\* the RGB split of applyTemporalGlitch, in place
rgbSplit(data, split) ==
    [data EXCEPT !.px =
        [k \in 1..data.w |->
            <<IF k + split <= data.w
              THEN Or(data.px[k + split][1], data.px[k][1])
              ELSE data.px[k][1],
              data.px[k][2],
              splitBlue(data.px, split, k)>>]]

\* ctx.putImageData(sliceData, displacement, sliceY)
displaced(data, dx) ==
    [data EXCEPT !.px =
        [k \in 1..data.w |->
            IF k - dx >= 1 /\ k - dx <= data.w
            THEN data.px[k - dx] ELSE data.px[k]]]

\* a time-smear that retains the frame as the video drew it
timeSmearTickKeepsInput(cur, prev, decay, intensity) ==
    [out |-> smearData(cur, prev, decay, intensity), prev |-> cur,
     trig |-> FALSE]

\* one tick of time-smear on pixel data: the canvas after the tick, the
\* frame it retains
timeSmearTick(cur, prev, decay, intensity) ==
    LET out == smearData(cur, prev, decay, intensity)
    IN  [out |-> out, prev |-> out, trig |-> FALSE]

\* one tick of memory-fade
memoryFadeTick(cur, prev, decay, intensity, draw) ==
    LET out == IF prev = NoData THEN cur
               ELSE dreamOverlay(fadeData(cur, prev, decay, intensity),
                                 draw.dark)
    IN  [out |-> out, prev |-> out, trig |-> FALSE]

\* one tick of temporal-glitch
temporalGlitchTick(cur, intensity, draw) ==
    IF glitchTriggered(draw.u, intensity)
    THEN LET split == rgbSplit(cur, splitAmount(intensity))
         IN  [out |-> IF draw.slice THEN displaced(split, draw.dx) ELSE split,
              prev |-> split, trig |-> TRUE]
    ELSE [out |-> cur, prev |-> cur, trig |-> FALSE]

\* the switch of render() for the effects that compute on pixel data
tickOnData(effect, cur, prev, decay, intensity, draw) ==
    CASE effect = "time-smear" -> timeSmearTick(cur, prev, decay, intensity)
      [] effect = "memory-fade" ->
            memoryFadeTick(cur, prev, decay, intensity, draw)
      [] effect = "temporal-glitch" -> temporalGlitchTick(cur, intensity, draw)

\* ------------------------------------------------------------------------
\* The effects on pixel data, tick by tick
\* ------------------------------------------------------------------------
PixelEffects == {"time-smear", "memory-fade", "temporal-glitch"}

\* <<decay, intensity>> as the settings provider may hand them over, in
\* tenths: slider values and values outside of [0, 1]
ParamPairs ==
    {<<0, 0>>, <<9, 5>>, <<5, 1>>, <<5, 20>>, <<20, 5>>, <<-10, -10>>}

PixelInputs == {<<0, 0, 0>>, <<255, 128, 0>>}

\* the frames the video can put on a canvas of width w
InputFrames(w) == {[w |-> w, px |-> p] : p \in [1..w -> PixelInputs]}

\* the outcomes of Math.random() in a tick and of the canvas filters
Draws == [u : {0, 5}, slice : BOOLEAN, dx : {-1, 1}, dark : BOOLEAN]

\* a run with one effect and one pair of parameters
InitPixelRun ==
    /\ InitPage
    /\ InitPixels
    /\ InitAuth
    /\ InitHistory
    /\ InitExport
    /\ InitDocs
    /\ tickCount = 0
    /\ tickParams \in {[effect |-> e, decay |-> p[1], intensity |-> p[2]] :
                          e \in PixelEffects, p \in ParamPairs}

\* handleVideoLoaded: the canvas takes the width of the video, which clears
\* it; the retained frame stays
PixelLoad(w) ==
    /\ w # canvasData.w
    /\ canvasData' = [w |-> w, px |-> [k \in 1..w |-> <<0, 0, 0>>]]
    /\ UNCHANGED <<pageVars, tickVars, currentFrame, prevData, triggered,
                   authVars, echoVars, exportVars, sharedVars>>

\* the reset effect runs
PixelReset ==
    /\ tickCount > 0
    /\ prevData' = NoData
    /\ tickCount' = 0
    /\ UNCHANGED <<pageVars, tickParams, currentFrame, canvasData, triggered,
                   authVars, echoVars, exportVars, sharedVars>>

\* one tick: the video frame cur is drawn and read back, the effect runs
PixelTick(cur, draw) ==
    /\ canvasData.w > 0
    /\ tickCount < MaxPixelTicks
    /\ cur \in InputFrames(canvasData.w)
    /\ LET t == tickOnData(tickParams.effect, cur, prevData,
                           tickParams.decay, tickParams.intensity, draw)
       IN  /\ currentFrame' = cur
           /\ canvasData' = t.out
           /\ prevData' = t.prev
           /\ triggered' = t.trig
    /\ tickCount' = tickCount + 1
    /\ UNCHANGED <<pageVars, tickParams, authVars, echoVars, exportVars, sharedVars>>

NextPixels ==
    \/ \E w \in 1..MaxWidth : PixelLoad(w)
    \/ PixelReset
    \/ \E w \in 1..MaxWidth, draw \in Draws :
          \E cur \in InputFrames(w) : PixelTick(cur, draw)

SpecPixels == InitPixelRun /\ [][NextPixels]_vars

\* ------------------------------------------------------------------------
\* Time-smear on a video that is white first and black afterwards
\* ------------------------------------------------------------------------
WhiteFrame == [w |-> 1, px |-> <<<<255, 255, 255>>>>]
BlackFrame == [w |-> 1, px |-> <<<<0, 0, 0>>>>]

InitDecayRun ==
    /\ InitPage
    /\ InitPixels
    /\ InitAuth
    /\ InitHistory
    /\ InitExport
    /\ InitDocs
    /\ tickCount = 0
    /\ tickParams \in [effect : {"time-smear"}, decay : {0, 5, 9, 10},
                        intensity : {0, 5, 10}]

\* the video shows ten white frames, then black ones
DecayTick ==
    /\ canvasData.w = 1
    /\ tickCount < MaxTicks
    /\ LET cur == IF tickCount < 10 THEN WhiteFrame ELSE BlackFrame
           t == timeSmearTick(cur, prevData, tickParams.decay,
                              tickParams.intensity)
       IN  /\ currentFrame' = cur
           /\ canvasData' = t.out
           /\ prevData' = t.prev
           /\ triggered' = t.trig
    /\ tickCount' = tickCount + 1
    /\ UNCHANGED <<pageVars, tickParams, authVars, echoVars, exportVars, sharedVars>>

NextDecay ==
    \/ canvasData.w = 0 /\ PixelLoad(1)
    \/ DecayTick

SpecDecay == InitDecayRun /\ [][NextDecay]_vars

\* ------------------------------------------------------------------------
\* Temporal-glitch on frames wide enough for the split to shift twice
\* ------------------------------------------------------------------------
GlitchInputs == {<<0, 0, 0>>, <<255, 128, 0>>, <<10, 20, 30>>}
GlitchFrames == [w : {GlitchWidth}, px : [1..GlitchWidth -> GlitchInputs]]

InitGlitchRun ==
    /\ InitPage
    /\ InitPixels
    /\ InitAuth
    /\ InitHistory
    /\ InitExport
    /\ InitDocs
    /\ tickCount = 0
    /\ tickParams \in [effect : {"temporal-glitch"}, decay : {DefaultDecay},
                        intensity : {0, 1, 5, 10}]

GlitchTick(cur, draw) ==
    /\ canvasData.w = GlitchWidth
    /\ tickCount < 1
    /\ LET t == temporalGlitchTick(cur, tickParams.intensity, draw)
       IN  /\ currentFrame' = cur
           /\ canvasData' = t.out
           /\ prevData' = t.prev
           /\ triggered' = t.trig
    /\ tickCount' = tickCount + 1
    /\ UNCHANGED <<pageVars, tickParams, authVars, echoVars, exportVars, sharedVars>>

NextGlitch ==
    \/ canvasData.w = 0 /\ PixelLoad(GlitchWidth)
    \/ \E cur \in GlitchFrames, draw \in Draws : GlitchTick(cur, draw)

SpecGlitch == InitGlitchRun /\ [][NextGlitch]_vars

\* ------------------------------------------------------------------------
\* Echo-cascade on pixel data: frames of one RGBA pixel
\* ------------------------------------------------------------------------
\* the n-th frame of the video, every frame with the alpha channel a
Shot(n, a) == [w |-> 1, px |-> <<<<n, 128, 0, a>>>>]

\* what getImageData returns after the next frame of the video was drawn
NextShots ==
    IF currentFrame = NoData THEN {Shot(1, a) : a \in {255, 128}}
    ELSE {Shot(currentFrame.px[1][1] + 1, currentFrame.px[1][4])}

\* a history that stores the new frame behind the ones it holds
pushFrameBehind(hist, frame, capacity) ==
    Truncate(hist \o <<frame>>, capacity)

\* frameHistoryRef.current.unshift(frameClone), then the cut to maxEchoes
pushFrame(hist, frame, capacity) == Truncate(<<frame>> \o hist, capacity)

\* ctx.drawImage with globalCompositeOperation source-over: one pixel src
\* drawn with globalAlpha ga (in tenths) over the pixel dst
sourceOver(src, dst, ga) ==
    LET as == ga * src[4]
        outA == as * 255 + dst[4] * (2550 - as)
    IN  IF outA = 0 THEN <<0, 0, 0, 0>>
        ELSE [c \in 1..4 |->
                IF c = 4 THEN ToUint8Clamped(outA, 2550)
                ELSE ToUint8Clamped(src[c] * as * 255
                                      + dst[c] * dst[4] * (2550 - as), outA)]

\* what the older echoes, drawn tinted and offset, left on the pixel after
\* clearRect: nothing, or paint
Underlays == {<<0, 0, 0, 0>>, <<255, 255, 255, 255>>}

\* a newest frame drawn with the opacity of an echo
drawNewestAsEcho(frame, under) ==
    [frame EXCEPT !.px = [k \in 1..frame.w |->
                            sourceOver(frame.px[k], under, 7)]]

\* the last pass of the drawing loop, i = 0: globalAlpha 1, offset (0, 0)
drawNewest(frame, under) ==
    [frame EXCEPT !.px = [k \in 1..frame.w |->
                            sourceOver(frame.px[k], under, 10)]]

\* a cascade that stores what it left on the canvas
echoCascadeTickStoresOutput(cur, hist, intensity, under) ==
    LET out == IF Len(hist) < 1 THEN cur ELSE drawNewest(cur, under)
    IN  [hist |-> pushFrame(hist, out, maxEchoes(intensity)), out |-> out]

\* one tick of echo-cascade on pixel data
echoCascadeTick(cur, hist, intensity, under) ==
    LET h == pushFrame(hist, cur, maxEchoes(intensity))
    IN  [hist |-> h,
         out |-> IF Len(h) < 2 THEN cur ELSE drawNewest(cur, under)]

\* intensities of the slider and intensities the shared map may deliver
CascadeIntensities == {-5, -4, -3, 0, 10, 20}

CascadeReset ==
    /\ tickCount > 0
    /\ historyData' = <<>>
    /\ tickCount' = 0
    /\ UNCHANGED <<pageVars, tickParams, pixelVars, authVars, sharedVars, exportVars>>

CascadeTick(cur, i, under) ==
    /\ canvasData.w = 1
    /\ cur.px[1][1] <= MaxTicks
    /\ LET t == echoCascadeTick(cur, historyData, i, under)
       IN  /\ historyData' = t.hist
           /\ canvasData' = t.out
    /\ currentFrame' = cur
    /\ tickParams' = [tickParams EXCEPT !.effect = "echo-cascade",
                                        !.intensity = i]
    /\ tickCount' = tickCount + 1
    /\ UNCHANGED <<pageVars, prevData, triggered, authVars, sharedVars, exportVars>>

NextCascade ==
    \/ canvasData.w = 0 /\ PixelLoad(1)
    \/ CascadeReset
    \/ \E cur \in NextShots, i \in CascadeIntensities, under \in Underlays :
          CascadeTick(cur, i, under)

SpecCascade == Init /\ [][NextCascade]_vars

\* ------------------------------------------------------------------------
\* The shared document: two clients, their replicas of the map
\* 'currentEffect', and the exchange of updates
\* ------------------------------------------------------------------------
\* the origin of an entry that was set on an empty key
NoId == <<0, 0>>

\* the entries a client has created in its replica
Created(map, c) ==
    {<<k, i>> \in Keys \X (1..6) : i <= Len(map[k]) /\ map[k][i].id[1] = c}

\* map.set(key, value) by client c: a new entry behind the entries of the
\* key, which it overwrites
localSet(map, c, key, value) ==
    LET old == map[key]
        entry == [id |-> <<c, Cardinality(Created(map, c)) + 1>>,
                  origin |-> IF old = <<>> THEN NoId ELSE old[Len(old)].id,
                  value |-> value]
    IN  [map EXCEPT ![key] = Append(old, entry)]

\* map.has(key)
mapHas(map, key) == map[key] # <<>>

\* map.get(key) ?? default: the value of the last entry of the key
mapGet(map, key, default) ==
    IF mapHas(map, key) THEN map[key][Len(map[key])].value ELSE default

\* the position of the entry id in seq, 0 for none
IndexOf(seq, id) ==
    IF \E i \in 1..Len(seq) : seq[i].id = id
    THEN CHOOSE i \in 1..Len(seq) : seq[i].id = id
    ELSE 0

\* the conflict resolution of an entry that arrives from another client: the
\* position behind which it is integrated
RECURSIVE scanConflicts(_, _, _, _, _, _)
scanConflicts(seq, entry, k, left, before, conflicting) ==
    IF k > Len(seq) THEN left
    ELSE LET o == seq[k]
             before2 == before \cup {o.id}
             conflicting2 == conflicting \cup {o.id}
         IN  IF o.origin = entry.origin
             THEN IF o.id[1] < entry.id[1]
                  THEN scanConflicts(seq, entry, k + 1, k, before2, {})
                  ELSE left
             ELSE IF o.origin # NoId /\ o.origin \in before2
             THEN IF o.origin \notin conflicting2
                  THEN scanConflicts(seq, entry, k + 1, k, before2, {})
                  ELSE scanConflicts(seq, entry, k + 1, left, before2,
                                     conflicting2)
             ELSE left

\* the integration of a remote entry into the entries of its key
integrate(seq, entry) ==
    IF IndexOf(seq, entry.id) # 0 THEN seq
    ELSE LET start == IndexOf(seq, entry.origin)
             left == scanConflicts(seq, entry, start + 1, start, {}, {})
         IN  SubSeq(seq, 1, left) \o <<entry>> \o SubSeq(seq, left + 1, Len(seq))

RECURSIVE integrateAll(_, _)
integrateAll(seq, entries) ==
    IF entries = <<>> THEN seq
    ELSE integrateAll(integrate(seq, Head(entries)), Tail(entries))

\* the provider applies the updates of the replica from
applyUpdates(map, from) == [k \in Keys |-> integrateAll(map[k], from[k])]

\* useCollaboration on mount: a new Y.Doc, defaults if not set
initDefaults(map, c) ==
    IF mapHas(map, "selectedEffect") THEN map
    ELSE localSet(localSet(localSet(map, c, "selectedEffect", NoEffect),
                           c, "decay", DefaultDecay),
                  c, "intensity", DefaultIntensity)

mount(c) == [joined |-> TRUE, map |-> initDefaults(Absent.map, c)]

\* updateEffectSettings: what the client shows
shown(c) ==
    [selectedEffect |-> mapGet(docs[c].map, "selectedEffect", NoEffect),
     decay |-> mapGet(docs[c].map, "decay", DefaultDecay),
     intensity |-> mapGet(docs[c].map, "intensity", DefaultIntensity)]

\* setEffectParams on the replica of client c
setBothParams(map, c, params) ==
    localSet(localSet(map, c, "decay", params.decay),
             c, "intensity", params.intensity)

\* the clients that have the project open
Joined == {c \in Clients : docs[c].joined}

\* the user of client c chose value for key, with n clients in the project
Chose(c, key, value) ==
    intent' = [intent EXCEPT
                  ![key] = @ \cup {<<c, value, Cardinality(Joined)>>}]

\* each user makes one choice per key
Undecided(c, key) == \A v \in intent[key] : v[1] # c

Join(c) ==
    /\ ~docs[c].joined
    /\ docs' = [docs EXCEPT ![c] = mount(c)]
    /\ UNCHANGED <<pageVars, tickVars, pixelVars, authVars, echoVars, exportVars, intent>>

SharedEffectClick(c, e) ==
    /\ docs[c].joined
    /\ Undecided(c, "selectedEffect")
    /\ e # shown(c).selectedEffect
    /\ docs' = [docs EXCEPT ![c].map = localSet(@, c, "selectedEffect", e)]
    /\ Chose(c, "selectedEffect", e)
    /\ UNCHANGED <<pageVars, tickVars, pixelVars, authVars, echoVars, exportVars>>

SharedParamChange(c, key, v) ==
    /\ docs[c].joined
    /\ Undecided(c, key)
    /\ v # shown(c)[key]
    /\ docs' = [docs EXCEPT ![c].map =
                   setBothParams(@, c, [shown(c) EXCEPT ![key] = v])]
    /\ Chose(c, key, v)
    /\ UNCHANGED <<pageVars, tickVars, pixelVars, authVars, echoVars, exportVars>>

\* the updates of client a reach client b
Sync(a, b) ==
    /\ a # b
    /\ docs[a].joined
    /\ docs[b].joined
    /\ docs' = [docs EXCEPT ![b].map = applyUpdates(@, docs[a].map)]
    /\ docs' # docs
    /\ UNCHANGED <<pageVars, tickVars, pixelVars, authVars, echoVars, exportVars, intent>>

\* the effects the users click in the shared project
SharedEffects == {"time-smear", "echo-cascade"}

NextShared ==
    \/ \E c \in Clients, e \in SharedEffects : SharedEffectClick(c, e)
    \/ \E c \in Clients, v \in DecayValues :
          SharedParamChange(c, "decay", v)
    \/ \E c \in Clients, v \in IntensityValues :
          SharedParamChange(c, "intensity", v)
    \/ \E a \in Clients, b \in Clients : Sync(a, b)

NextJoin ==
    \/ \E c \in Clients : Join(c)
    \/ NextShared

\* everyone has the project open and has received the others' defaults
InitSharedRun ==
    /\ InitPage
    /\ InitTicks
    /\ InitPixels
    /\ InitAuth
    /\ InitHistory
    /\ InitExport
    /\ intent = [k \in Keys |-> {}]
    /\ docs = [c \in Clients |->
                 [joined |-> TRUE,
                  map |-> applyUpdates(mount(1).map, mount(2).map)]]

SpecShared == InitSharedRun /\ [][NextShared]_vars

SpecJoin == Init /\ [][NextJoin]_vars

\* ------------------------------------------------------------------------
\* ExportModal: recording the canvas in the browser
\*
\* The modal is rendered by the editor page at all times (isOpen only hides
\* its markup), so its state, refs, recorder events and timers outlive a
\* close. A recorder is [state, awaiting, stopQueued, ended, fallback]:
\*   state       MediaRecorder.state
\*   awaiting    handleExport is suspended in its awaits after start()
\*   stopQueued  stop() was called and the stop event is not delivered yet
\*   ended       the 'ended' listener of this export is on the video
\*   fallback    the (duration + 2) s timeout of this export is pending
MaxExports == 2

\* URL.createObjectURL(blob)
ObjectUrl == [kind |-> "url", exp |-> 0]

\* the message given to setError
Message == [kind |-> "text", exp |-> 0]

Exports == 1..Len(exportModal.recorders)

\* mediaRecorderRef.current?.state === 'recording'
currentIsRecording ==
    /\ exportModal.recorders # <<>>
    /\ exportModal.recorders[Len(exportModal.recorders)].state = "recording"

\* mediaRecorderRef.current.stop(): the recorder goes inactive at once and
\* its stop event is delivered later
stopCurrent(rs) ==
    [rs EXCEPT ![Len(rs)].state = "inactive", ![Len(rs)].stopQueued = TRUE]

\* if (mediaRecorderRef.current?.state === 'recording') stop()
stopIfRecording(rs) ==
    IF currentIsRecording THEN stopCurrent(rs) ELSE rs

\* the Export button of the top bar
OpenExport ==
    /\ ~exportModal.isOpen
    /\ exportModal' = [exportModal EXCEPT !.isOpen = TRUE]
    /\ UNCHANGED <<pageVars, tickVars, pixelVars, authVars, echoVars,
                   sharedVars>>

\* handleExport up to mediaRecorder.start(100); ready is false when the
\* canvas or the video is missing or the duration is 0 or NaN
handleExport(ready) ==
    /\ exportModal.isOpen
    /\ exportModal.status = "idle"
    /\ Len(exportModal.recorders) < MaxExports
    /\ exportModal' =
         IF ~ready
           THEN [exportModal EXCEPT !.error = Message]
           ELSE [exportModal EXCEPT
                   !.status = "recording",
                   !.progress = 0,
                   !.error = Null,
                   !.downloadUrl = Null,
                   !.cancelledRef = FALSE,
                   !.recorders = Append(@,
                       [state |-> "recording", awaiting |-> TRUE,
                        stopQueued |-> FALSE, ended |-> FALSE,
                        fallback |-> FALSE]),
                   !.sinceCancel = FALSE]
    /\ UNCHANGED <<pageVars, tickVars, pixelVars, authVars, echoVars,
                   sharedVars>>

\* handleExport after its awaits: the progress interval, the 'ended'
\* listener and the fallback timeout
exportResumes(i) ==
    /\ exportModal.recorders[i].awaiting
    /\ exportModal' = [exportModal EXCEPT
                         !.recorders[i].awaiting = FALSE,
                         !.recorders[i].ended = TRUE,
                         !.recorders[i].fallback = TRUE,
                         !.progressInterval = TRUE]
    /\ UNCHANGED <<pageVars, tickVars, pixelVars, authVars, echoVars,
                   sharedVars>>

\* video.play() rejects: the catch block of handleExport
exportThrows(i) ==
    /\ exportModal.recorders[i].awaiting
    /\ exportModal' = [exportModal EXCEPT
                         !.recorders[i].awaiting = FALSE,
                         !.progressInterval = FALSE,
                         !.status = "failed",
                         !.error = Message]
    /\ UNCHANGED <<pageVars, tickVars, pixelVars, authVars, echoVars,
                   sharedVars>>

\* the 100 ms progress interval: Math.min(currentTime / duration * 100, 99)
progressTick(pct) ==
    /\ exportModal.progressInterval
    /\ pct # exportModal.progress
    /\ exportModal' = [exportModal EXCEPT !.progress = pct]
    /\ UNCHANGED <<pageVars, tickVars, pixelVars, authVars, echoVars,
                   sharedVars>>

\* handleEnded: the video reached its end
handleEnded(i) ==
    /\ exportModal.recorders[i].ended
    /\ exportModal' = [exportModal EXCEPT
                         !.recorders =
                            stopIfRecording([@ EXCEPT ![i].ended = FALSE])]
    /\ UNCHANGED <<pageVars, tickVars, pixelVars, authVars, echoVars,
                   sharedVars>>

\* the fallback timeout fires
fallbackTimeout(i) ==
    /\ exportModal.recorders[i].fallback
    /\ exportModal' = [exportModal EXCEPT
                         !.recorders =
                            IF currentIsRecording
                              THEN stopCurrent([@ EXCEPT
                                                  ![i].fallback = FALSE,
                                                  ![i].ended = FALSE])
                              ELSE [@ EXCEPT ![i].fallback = FALSE]]
    /\ UNCHANGED <<pageVars, tickVars, pixelVars, authVars, echoVars,
                   sharedVars>>

\* mediaRecorder.onstop, with the wrapper that clears the fallback timeout
onstop(i) ==
    /\ exportModal.recorders[i].stopQueued
    /\ exportModal' =
         IF exportModal.cancelledRef
           THEN [exportModal EXCEPT
                   !.recorders[i].stopQueued = FALSE,
                   !.recorders[i].fallback = FALSE,
                   !.progressInterval = FALSE]
           ELSE [exportModal EXCEPT
                   !.recorders[i].stopQueued = FALSE,
                   !.recorders[i].fallback = FALSE,
                   !.progressInterval = FALSE,
                   !.status = "processing",
                   !.processingTimers = @ + 1]
    /\ UNCHANGED <<pageVars, tickVars, pixelVars, authVars, echoVars,
                   sharedVars>>

\* the callback of setTimeout(..., 500) in onstop
processingDone ==
    /\ exportModal.processingTimers > 0
    /\ exportModal' = [exportModal EXCEPT
                         !.processingTimers = @ - 1,
                         !.downloadUrl = ObjectUrl,
                         !.status = "completed",
                         !.progress = 100]
    /\ UNCHANGED <<pageVars, tickVars, pixelVars, authVars, echoVars,
                   sharedVars>>

\* mediaRecorder.onerror; the recorder that failed stops, so its stop event
\* follows
onerror(i) ==
    /\ exportModal.recorders[i].state = "recording"
    /\ exportModal' = [exportModal EXCEPT
                         !.recorders[i].state = "inactive",
                         !.recorders[i].stopQueued = TRUE,
                         !.progressInterval = FALSE,
                         !.status = "failed",
                         !.error = Message]
    /\ UNCHANGED <<pageVars, tickVars, pixelVars, authVars, echoVars,
                   sharedVars>>

\* the state updates of handleCancel
cancelled(m) ==
    [m EXCEPT !.cancelledRef = TRUE,
              !.progressInterval = FALSE,
              !.recorders = stopIfRecording(@),
              !.status = "idle",
              !.progress = 0,
              !.sinceCancel = TRUE]

\* the Cancel button, shown while status is 'recording'
handleCancel ==
    /\ exportModal.isOpen
    /\ exportModal.status = "recording"
    /\ exportModal' = cancelled(exportModal)
    /\ UNCHANGED <<pageVars, tickVars, pixelVars, authVars, echoVars,
                   sharedVars>>

\* the close button of the modal, shown in every status
handleClose ==
    /\ exportModal.isOpen
    /\ exportModal' = [cancelled(exportModal) EXCEPT
                         !.downloadUrl = Null,
                         !.error = Null,
                         !.isOpen = FALSE]
    /\ UNCHANGED <<pageVars, tickVars, pixelVars, authVars, echoVars,
                   sharedVars>>

\* the button 'Export Another' of the completed view
exportAnother ==
    /\ exportModal.isOpen
    /\ exportModal.status = "completed"
    /\ exportModal' = [exportModal EXCEPT
                         !.status = "idle",
                         !.downloadUrl = Null,
                         !.progress = 0]
    /\ UNCHANGED <<pageVars, tickVars, pixelVars, authVars, echoVars,
                   sharedVars>>

\* the button 'Try Again' of the failed view
tryAgain ==
    /\ exportModal.isOpen
    /\ exportModal.status = "failed"
    /\ exportModal' = [exportModal EXCEPT !.status = "idle", !.error = Null]
    /\ UNCHANGED <<pageVars, tickVars, pixelVars, authVars, echoVars,
                   sharedVars>>

ProgressValues == {50, 99}

NextExport ==
    \/ OpenExport
    \/ \E ready \in BOOLEAN : handleExport(ready)
    \/ \E i \in Exports : exportResumes(i)
    \/ \E i \in Exports : exportThrows(i)
    \/ \E pct \in ProgressValues : progressTick(pct)
    \/ \E i \in Exports : handleEnded(i)
    \/ \E i \in Exports : fallbackTimeout(i)
    \/ \E i \in Exports : onstop(i)
    \/ processingDone
    \/ \E i \in Exports : onerror(i)
    \/ handleCancel
    \/ handleClose
    \/ exportAnother
    \/ tryAgain

SpecExport == Init /\ [][NextExport]_vars

\* ------------------------------------------------------------------------
\* The API client and the auth handler: login, refresh, logout
\* ------------------------------------------------------------------------
\* lifetimes of the tokens, in access token lifetimes (config.go has 15
\* minutes and 7 days)
AccessTokenTTL == 1
RefreshTokenTTL == 3

\* a field that a JSON response does not have
Undefined == [kind |-> "undefined", exp |-> 0]

\* JWTManager.generateToken
generateToken(tokenType, ttl) == [kind |-> tokenType, exp |-> serverNow + ttl]

\* JWTManager.ValidateToken, then the check of the token type: nil, or the
\* error
ValidateRefreshToken(token) ==
    IF token.kind \notin {"access", "refresh"} THEN "ErrInvalidToken"
    ELSE IF serverNow > token.exp THEN "ErrExpiredToken"
    ELSE IF token.kind # "refresh" THEN "ErrInvalidToken"
    ELSE "nil"

\* response.name of a parsed JSON body
Field(response, name) ==
    IF name \in DOMAIN response THEN response[name] ELSE Undefined

\* localStorage.setItem(key, value) stores String(value): a token as it
\* is, undefined as the string "undefined", which is no token
Stored(value) ==
    IF value = Undefined THEN [kind |-> "text", exp |-> 0] ELSE value

setTokens(accessToken, refreshToken) ==
    [access |-> Stored(accessToken), refresh |-> Stored(refreshToken)]

\* AuthHandler.Login: the body of the 200 response, or the 401
LoginResponse(passwordOk) ==
    IF passwordOk
    THEN [status |-> 200,
          body |-> [access_token |-> generateToken("access", AccessTokenTTL),
                    refresh_token |-> generateToken("refresh", RefreshTokenTTL)]]
    ELSE [status |-> 401, body |-> [error |-> "Invalid email or password"]]

\* AuthHandler.Refresh
RefreshResponse(token) ==
    LET err == ValidateRefreshToken(token)
    IN  IF err = "ErrExpiredToken"
        THEN [status |-> 401, body |-> [error |-> "Refresh token has expired"]]
        ELSE IF err # "nil"
        THEN [status |-> 401, body |-> [error |-> "Invalid refresh token"]]
        ELSE [status |-> 200,
              body |-> [access_token |-> generateToken("access", AccessTokenTTL)]]

\* fetchAPI throws on a response that is not ok; the caller stores the
\* tokens of the one that is
Answered(op, response) ==
    /\ lastAuth' = [op |-> op, status |-> response.status, at |-> serverNow]
    /\ localStorage' =
           IF response.status = 200
           THEN setTokens(Field(response.body, "access_token"),
                          Field(response.body, "refresh_token"))
           ELSE localStorage

login(passwordOk) ==
    /\ Answered("login", LoginResponse(passwordOk))
    /\ UNCHANGED <<pageVars, tickVars, pixelVars, echoVars, exportVars, sharedVars,
                   serverNow>>

refreshTokens ==
    /\ IF localStorage.refresh = Null
       THEN /\ lastAuth' = [op |-> "refresh", status |-> 0, at |-> serverNow]
            /\ UNCHANGED localStorage
       ELSE Answered("refresh", RefreshResponse(localStorage.refresh))
    /\ UNCHANGED <<pageVars, tickVars, pixelVars, echoVars, exportVars, sharedVars,
                   serverNow>>

logout ==
    /\ localStorage' = [access |-> Null, refresh |-> Null]
    /\ lastAuth' = [op |-> "logout", status |-> 0, at |-> serverNow]
    /\ UNCHANGED <<pageVars, tickVars, pixelVars, echoVars, exportVars, sharedVars,
                   serverNow>>

TimePasses ==
    /\ serverNow < MaxClock
    /\ serverNow' = serverNow + 1
    /\ UNCHANGED <<pageVars, tickVars, pixelVars, echoVars, exportVars, sharedVars,
                   localStorage, lastAuth>>

NextAuth ==
    \/ \E passwordOk \in BOOLEAN : login(passwordOk)
    \/ refreshTokens
    \/ logout
    \/ TimePasses

SpecAuth == Init /\ [][NextAuth]_vars

\* ------------------------------------------------------------------------
\* The echo history, tick by tick
\* ------------------------------------------------------------------------

\* slider positions of the intensity, in tenths
Tenths == 0..10

\* the effect selector changes to echo-cascade: the reset effect runs
EchoReset ==
    /\ tickCount > 0
    /\ frameHistoryRef' = resetEffectState(Refs).hist
    /\ tickParams' = [tickParams EXCEPT !.effect = "echo-cascade"]
    /\ tickCount' = 0
    /\ UNCHANGED <<homeVars, reactVars, animationRef, ctxRef,
                   previousFrameRef, timeRef, startTimeRef, domVars,
                   hostVars, obsVars, pixelVars, authVars, echoVars, exportVars, sharedVars>>

\* one tick of echo-cascade with the intensity i in force
EchoTick(i) ==
    /\ tickCount < MaxTicks
    /\ frameHistoryRef' = applyEchoCascade(Refs, i).hist
    /\ tickParams' = [tickParams EXCEPT !.effect = "echo-cascade",
                                        !.intensity = i]
    /\ tickCount' = tickCount + 1
    /\ UNCHANGED <<homeVars, reactVars, animationRef, ctxRef,
                   previousFrameRef, timeRef, startTimeRef, domVars,
                   hostVars, obsVars, pixelVars, authVars, echoVars, exportVars, sharedVars>>

NextEcho ==
    \/ EchoReset
    \/ \E i \in Tenths : EchoTick(i)

SpecEcho == Init /\ [][NextEcho]_vars

\* ------------------------------------------------------------------------
\* Properties
\* ------------------------------------------------------------------------

\* a retained frame exists
Retained == previousFrameRef.present \/ frameHistoryRef # <<>>

\* C1: the first tick executed after the effect selector changed starts with
\* no retained previous frame and an empty echo list and with an elapsed time
\* of 0, and no tick reads a frame that was retained under an earlier effect
\* selection.
FirstTickStartsClean ==
    /\ ~lastTick.readOld
    /\ lastTick.first => ~lastTick.hadHistory /\ timeRef = 0

\* the first tick of time-smear after a switch, late on the clock, with its
\* own frame retained
FirstTickAfterSwitch ==
    /\ lastTick.first
    /\ lastTick.cause = "start"
    /\ props.effect = "time-smear"
    /\ loopState = "Running"
    /\ now > 0
    /\ startTimeRef = now
    /\ previousFrameRef = NewFrame

\* C2: a step in which the effect selector of the component does not change
\* (parameter change, tick, loop restart, play/pause), other than the load of
\* a video or the end of the page, never clears the retained previous frame
\* or the echo list and never moves the clock origin.
ParamChangeKeepsHistory ==
    [][(/\ mounted'
        /\ ~(phase = "flushing" /\ "reset" \in changed)
        /\ ~(metadataPending /\ ~metadataPending'))
       => /\ startTimeRef' = startTimeRef
          /\ previousFrameRef.present => previousFrameRef'.present
          /\ frameHistoryRef # <<>> => frameHistoryRef' # <<>>]_vars

\* the loop restarted for a changed decay and ticked on the frames and the
\* clock origin it had before
RestartedOnParamChange ==
    /\ props.decay # DefaultDecay
    /\ props.effect = "echo-cascade"
    /\ lastTick.cause = "start"
    /\ ~lastTick.first
    /\ lastTick.hadHistory
    /\ Len(frameHistoryRef) > 1
    /\ startTimeRef < now

\* C3: the decay and the intensity a tick of an effect computes with come
\* from one parameter update, also when the update of a collaborator arrives.
NoTornSnapshot == ~lastTick.torn

\* C4: after the teardown of a render loop its pending tick is cancelled: no
\* callback of a stopped loop is pending and none ever executes.
StoppedLoopNeverTicks ==
    /\ \A e \in rafQueue : ~e.stopped
    /\ ~lastTick.orphan

\* a teardown has just cancelled the request of the last tick
TeardownCancelled ==
    /\ phase = "flushing"
    /\ loopState = "Terminated"
    /\ ~lastTick.threw
    /\ animationRef # 0
    /\ rafQueue = {}

\* C5: at most one next-tick callback is pending at any time, and it belongs
\* to the one loop that is running.
AtMostOnePending ==
    /\ Cardinality(rafQueue) <= 1
    /\ rafQueue # {} => loopState = "Running"

\* a loop restarted while the video plays and has its one request pending
OnePendingAfterRestart ==
    /\ Cardinality(rafQueue) = 1
    /\ lastTick.cause = "start"
    /\ lastTick.hadHistory
    /\ ~paused
    /\ props.effect # NoEffect

\* C6: a tick runs only in response to a display-refresh signal.
TickOnlyOnSignal == lastTick.cause # "start"

\* C7: while the loop is running a next tick is pending, whether the video
\* plays or is paused.
RunningHasNextTick == loopState = "Running" => rafQueue # {}

\* a tick ran on a refresh signal while the video was paused after it had
\* played, and the next tick is pending
TickWhilePaused ==
    /\ loopState = "Running"
    /\ paused
    /\ ~props.isPlaying
    /\ lastTick.cause = "signal"
    /\ ~lastTick.threw
    /\ rafQueue # {}

\* C8 as stated: a loop that was stopped never runs again.
TerminatedIsFinal ==
    [][loopState = "Terminated" => loopState' # "Running"]_vars

\* C8: the lifecycle never returns to Uninitialized, and once the page is
\* unmounted the loop is not running and never runs again.
LifecycleOrder ==
    [][/\ loopState # "Uninitialized" => loopState' # "Uninitialized"
       /\ ~mounted' => loopState' # "Running"]_vars

\* the page was unmounted while the loop was ticking
StoppedByUnmount ==
    /\ ~mounted
    /\ loopState = "Terminated"
    /\ lastTick.cause = "signal"
    /\ ~lastTick.threw

\* C9: after the teardown of the render loop no frame is retained.
StopReleasesFrames == loopState = "Terminated" => ~Retained

\* C10: no tick executes on a source without width and height, and the loop
\* runs only while both dimensions of the frame are greater than 0.
TicksNeedDimensions ==
    /\ ~lastTick.threw
    /\ loopState = "Running" => canvasWidth > 0 /\ canvasHeight > 0

\* C11 as stated: after K ticks since the last switch the echo history holds
\* min(K, 5 + 10 * intensity) frames, whatever intensities were in force.
EchoLengthIsMin ==
    tickParams.effect = "echo-cascade"
    => Len(frameHistoryRef)
         = Min(tickCount, maxEchoes(tickParams.intensity))

\* C11: a tick of echo-cascade leaves min(L + 1, 5 + 10 * intensity) frames
\* in the history, L being the length before the tick and intensity the one
\* in force at the tick; the history never holds more than
\* min(K, 5 + 10 * intensity) frames after K ticks.
EchoLengthStep ==
    [][tickCount' = tickCount + 1
       => /\ Len(frameHistoryRef')
               = Min(Len(frameHistoryRef) + 1,
                     maxEchoes(tickParams'.intensity))
          /\ Len(frameHistoryRef')
               <= Min(tickCount', maxEchoes(tickParams'.intensity))]_vars

\* the history was cut at a low intensity and has not grown back to the
\* capacity of the higher intensity now in force
EchoHistoryCutEarlier ==
    /\ tickParams.effect = "echo-cascade"
    /\ tickCount > maxEchoes(tickParams.intensity)
    /\ Len(frameHistoryRef) > BaseEchoes
    /\ Len(frameHistoryRef) < maxEchoes(tickParams.intensity)

\* C12: while temporal-glitch, breath-sync or liquid-time is the effect of
\* the running loop, no frame is retained after a tick.
NoHistoryWithoutCapacity ==
    \A e \in rafQueue :
        e.effect \in {"temporal-glitch", "breath-sync", "liquid-time"}
        => ~Retained

\* a parameter clamped into [0, 1]
Clamped(v) == Max(0, Min(10, v))

\* a tick of the effects on pixel data has just run
Ticked == tickCount' = tickCount + 1

Feedback == {"time-smear", "memory-fade"}

\* C13: whatever decay and intensity the settings provider supplies, a tick
\* leaves on the canvas what it would leave with both values clamped into
\* [0, 1].
OutOfRangeIsClamped ==
    [][Ticked =>
         \E draw \in Draws :
            canvasData' = tickOnData(tickParams.effect, currentFrame',
                                     prevData, Clamped(tickParams.decay),
                                     Clamped(tickParams.intensity), draw).out
      ]_vars

\* C14: no tick of a feedback effect combines the current frame with a
\* retained frame of another size.
NoMixedSizes ==
    [][~(/\ Ticked
         /\ tickParams.effect \in Feedback
         /\ prevData # NoData
         /\ prevData.w # currentFrame'.w)]_vars

\* C15: a tick of time-smear with decay 0 and intensity 0 leaves the frame
\* it read on the canvas, whatever frame is retained.
SmearZeroIsIdentity ==
    [][(/\ Ticked
        /\ tickParams.effect = "time-smear"
        /\ tickParams.decay = 0
        /\ tickParams.intensity = 0)
       => canvasData' = currentFrame']_vars

\* ceil(log(1/e) / log(f/fden)): the ticks a factor of f/fden per tick
\* needs to bring 1 down to 1/e
NeededTicks(f, fden, e) ==
    CHOOSE n \in 1..7 : e * f^n <= fden^n /\ e * f^(n - 1) > fden^(n - 1)

\* C16: time-smear with decay 0.9 and intensity 0.5, ten white frames, then
\* black ones: the first black tick is not black, and for a tolerance of
\* one half the brightness stays at or above the tolerance until
\* ceil(log(1/2) / log(0.9)) black ticks have run.
SmearDecaysSlowly ==
    (/\ tickParams.decay = DefaultDecay
     /\ tickParams.intensity = DefaultIntensity
     /\ tickCount > 10
     /\ tickCount < 10 + NeededTicks(DefaultDecay, 10, 2))
    => /\ canvasData.px[1][1] > 0
       /\ 2 * canvasData.px[1][1] >= 255

\* C16, as the code has it: each black tick multiplies the brightness by
\* decay * intensity and rounds it to 8 bits, so with decay 0.9 and
\* intensity 0.5 the first black tick is not black and, for a tolerance of
\* one tenth, the brightness stays at or above the tolerance until
\* ceil(log(1/10) / log(0.45)) black ticks have run.
SmearDecaysByProduct ==
    [][(Ticked /\ tickCount >= 10)
       => LET c == canvasData.px[1][1]
              d == canvasData'.px[1][1]
              f == tickParams.decay * tickParams.intensity
          IN  /\ 100 * d - f * c \in -50..50
              /\ (/\ tickParams.decay = DefaultDecay
                  /\ tickParams.intensity = DefaultIntensity)
                 => /\ tickCount = 10 => d \in 1..254
                    /\ tickCount + 1 < 10 + NeededTicks(f, 100, 10)
                       => 10 * d >= 255]_vars

\* the third black tick has brought the brightness under one tenth
SmearUnderTolerance ==
    /\ tickParams.decay = DefaultDecay
    /\ tickParams.intensity = DefaultIntensity
    /\ tickCount = 10 + NeededTicks(DefaultDecay * DefaultIntensity, 100, 10)
    /\ currentFrame = BlackFrame
    /\ canvasData.px[1][1] > 0
    /\ 10 * canvasData.px[1][1] < 255

\* C17: a tick of temporal-glitch that does not trigger the glitch leaves
\* the frame it read on the canvas, and with intensity 0 no draw triggers
\* the glitch.
GlitchNeedsIntensity ==
    [][(Ticked /\ tickParams.effect = "temporal-glitch")
       => /\ tickParams.intensity = 0 => ~triggered'
          /\ ~triggered' => canvasData' = currentFrame']_vars

\* a tick of temporal-glitch with intensity 0 on a frame that is not black
GlitchAtZero ==
    /\ tickParams.effect = "temporal-glitch"
    /\ tickParams.intensity = 0
    /\ tickCount > 0
    /\ currentFrame.w = MaxWidth
    /\ currentFrame.px[1] # currentFrame.px[2]
    /\ canvasData = currentFrame

\* every channel of a frame is an integer of [0, 255]
InRange(data) ==
    \A k \in 1..data.w : \A c \in 1..3 : data.px[k][c] \in 0..255

FeedbackRetainsOutput ==
    [][(Ticked /\ tickParams.effect \in Feedback)
       => /\ prevData' = canvasData'
          /\ tickCount = 0 => canvasData' = currentFrame']_vars

\* the second tick of memory-fade retained a frame that differs from the
\* one it read
RetainedDiffersFromInput ==
    /\ tickParams.effect = "memory-fade"
    /\ tickCount = MaxPixelTicks
    /\ prevData = canvasData
    /\ prevData # currentFrame

\* C19: after a refresh that the server answered with 200 the client holds
\* a refresh token that the server accepts at that time.
RefreshKeepsRefreshToken ==
    (lastAuth.op = "refresh" /\ lastAuth.status = 200)
    => /\ localStorage.refresh.kind = "refresh"
       /\ lastAuth.at <= localStorage.refresh.exp

\* C21: after a triggered glitch with split s = floor(intensity * 15) the
\* frame has, at every pixel p, the red channel of the input at p + s and
\* the blue channel of the input at p - s, the green channel of the input
\* at p, and its own value where the shifted index is outside the buffer.
SplitSamplesInput ==
    (tickParams.effect = "temporal-glitch" /\ triggered)
    => LET s == splitAmount(tickParams.intensity)
       IN  \A p \in 1..currentFrame.w :
              prevData.px[p] =
                 <<IF p + s <= currentFrame.w THEN currentFrame.px[p + s][1]
                   ELSE currentFrame.px[p][1],
                   currentFrame.px[p][2],
                   IF p - s >= 1 THEN currentFrame.px[p - s][3]
                   ELSE currentFrame.px[p][3]>>

\* a tick of echo-cascade on pixel data has just run
CascadeTicked == Ticked /\ tickParams'.effect = "echo-cascade"

\* C22: a tick of echo-cascade stores the frame it read, not what it
\* leaves on the canvas, at the front of the history, and when the history
\* then holds fewer than 2 frames it leaves the frame it read on the
\* canvas.
EchoStoresInput ==
    [][CascadeTicked
       => /\ Len(historyData') > 0 => historyData'[1] = currentFrame'
          /\ Len(historyData') < 2 => canvasData' = currentFrame']_vars

\* a tick stored the frame it read and left another one on the canvas
EchoOutputDiffers ==
    /\ tickParams.effect = "echo-cascade"
    /\ Len(historyData) >= 2
    /\ historyData[1] = currentFrame
    /\ canvasData # currentFrame

\* C23: the echo history is ordered newest first: entry i is the frame the
\* i-th most recent tick read, whatever the capacity was at each tick.
EchoNewestFirst ==
    \A i \in 1..Len(historyData) :
       historyData[i] = Shot(currentFrame.px[1][1] - i + 1,
                             currentFrame.px[1][4])

\* a capacity that went down has cut the history to its most recent frames
EchoCutToRecent ==
    /\ Len(historyData) = 2
    /\ tickCount > 2

\* C24: the echo history never holds more than 15 frames, whatever the
\* intensity.
EchoAtMostFifteen == Len(historyData) <= maxEchoes(10)

NewVideoStartsClean ==
    [][(/\ Ticked
        /\ tickParams.effect \in Feedback
        /\ currentFrame # NoData
        /\ currentFrame.w # canvasData.w)
       => prevData = NoData]_vars

\* C27: with decay and intensity in [0, 1] every channel a tick of
\* time-smear leaves on the canvas is at least the channel it read and at
\* most the larger of that channel and the retained one.
SmearBetweenInputAndTrail ==
    [][(/\ Ticked
        /\ tickParams.effect = "time-smear"
        /\ tickParams.decay \in Tenths
        /\ tickParams.intensity \in Tenths
        /\ prevData # NoData)
       => \A p \in 1..currentFrame'.w : \A c \in 1..3 :
             /\ canvasData'.px[p][c] >= currentFrame'.px[p][c]
             /\ p <= prevData.w
                => canvasData'.px[p][c]
                     <= Max(currentFrame'.px[p][c], prevData.px[p][c])]_vars

\* every client that has the project open holds the same document
Converged ==
    \A a \in Clients, b \in Clients :
       (docs[a].joined /\ docs[b].joined) => docs[a].map = docs[b].map

\* C28: when one user has chosen a value for a parameter and no user has
\* chosen another one, every client shows that value once the updates are
\* exchanged, whatever the users did to the other parameter.
OneParamEditKeepsOther ==
    Converged
    => \A k \in {"decay", "intensity"} : \A c \in Clients, v \in intent[k] :
          intent[k] = {v} => shown(c)[k] = v[2]

\* C29: when every choice was made by the one user who had the project open
\* at that time, and the other user has opened it since, both show these
\* choices once the updates are exchanged.
JoinKeepsShared ==
    (/\ Converged
     /\ Joined = Clients
     /\ \A j \in Keys : \A u \in intent[j] : u[3] = 1)
    => \A k \in Keys : \A c \in Clients, v \in intent[k] :
          shown(c)[k] = v[2]


\* C30: once an export was cancelled or the modal closed, and until the user
\* starts a new export, the status is neither 'processing' nor 'completed'
\* and no download URL is set, whatever stop events and timers fire
CancelledStaysIdle ==
    exportModal.sinceCancel =>
        /\ exportModal.status \notin {"processing", "completed"}
        /\ exportModal.downloadUrl = Null

====
